---- MODULE Spec2Model ----
(***************************************************************************)
(* A model of BookScrapperProject.py: the catalogue crawl (BookScraper),   *)
(* the normalisation and analysis of the scraped listings                  *)
(* (BookDataAnalyzer) and the title-keyed SQLite store (BookDatabase).     *)
(*                                                                         *)
(* Three specifications share the module, one per component:               *)
(*   SpecStore    BookDatabase over a persisted database file              *)
(*   SpecCrawl    BookScraper.scrape_multiple_pages against a site         *)
(*   SpecAnalyze  BookDataAnalyzer over a list of scraped listings         *)
(***************************************************************************)
EXTENDS Integers, Sequences, FiniteSets

VARIABLES
    \* ---- BookDatabase ----
    db_file,        \* the file scraped_data/books_database.db: NoFile or [rows, seq]
    conn,           \* "none" (no BookDatabase object) or "open" (self.conn)
    init_path,      \* the branch the __init__ that just ran took: "created",
                    \* "removed" or "kept" ("none" once another call has run)
    prior_rows,     \* how many rows the file held when that __init__ started
    last_call,      \* the last operation run on the store
    last_batch,     \* the books_df handed to the last insert_books call
    insert_count,   \* insert_books' local insert_count at its end
    repeated,       \* the last insert_books call repeated the call before it
    \* ---- BookScraper ----
    crawl_pc,       \* "idle", "loop", "done" (returned) or "raised" (exception)
    num_pages,      \* the argument of scrape_multiple_pages
    page,           \* the loop variable of scrape_multiple_pages
    books,          \* self.books
    log,            \* the response requests.get gave for each page fetched so far
    \* ---- BookDataAnalyzer ----
    books_data,     \* the list handed to BookDataAnalyzer(books_data=...)
    an_pc,          \* "new", "ready", "raised", or the method that has just returned
    df,             \* self.df, a sequence of rows
    min_rating_arg, \* the min_rating of the method call that has just returned
    n_arg,          \* the n of the method call that has just returned
    result          \* what the method call that has just returned gave back

storeVars == <<db_file, conn, init_path, prior_rows, last_call, last_batch,
               insert_count, repeated>>
crawlVars == <<crawl_pc, num_pages, page, books, log>>
analyzerVars == <<books_data, an_pc, df, min_rating_arg, n_arg, result>>
vars == <<storeVars, crawlVars, analyzerVars>>

\* ------------------------------------------------------------------ bounds

\* The most rows the books table is let to hold.
MaxRows == 3
\* The longest books_df handed to insert_books.
MaxBatch == 2
\* The largest page limit handed to scrape_multiple_pages.
MaxPages == 3
\* The most listing blocks (article.product_pod) on one page.
MaxBlocks == 3
\* The longest list of scraped listings handed to BookDataAnalyzer.
MaxListings == 4

\* ----------------------------------------------------------------- helpers

\* What Series.map gives for a token that is no key of rating_map.
NaN == 0

Range(s) == {s[i] : i \in 1..Len(s)}

SeqsUpTo(S, n) == UNION {[1..k -> S] : k \in 0..n}

Max(S) == CHOOSE x \in S : \A y \in S : y <= x

\* ------------------------------------------------------------ BookDatabase

NoFile == [exists |-> FALSE, rows |-> <<>>, seq |-> 0]

\* A database file holding an empty books table.
NewTable == [exists |-> TRUE, rows |-> <<>>, seq |-> 0]

\* The rows of a DataFrame insert_books may be handed: a title, the numeric
\* price, the numeric rating (NaN where the token was not mapped) and the
\* two text columns.
StoreRows ==
    { [title |-> "A", price_numeric |-> 500, rating_numeric |-> 4,
       availability |-> "In stock", url |-> "catalogue/a"],
      [title |-> "A", price_numeric |-> 800, rating_numeric |-> 5,
       availability |-> "In stock", url |-> "catalogue/a"],
      [title |-> "B", price_numeric |-> 500, rating_numeric |-> 4,
       availability |-> "In stock", url |-> "catalogue/b"],
      [title |-> "B", price_numeric |-> 500, rating_numeric |-> NaN,
       availability |-> "In stock", url |-> "catalogue/b"] }

StoreFrames == SeqsUpTo(StoreRows, MaxBatch)

\* id INTEGER PRIMARY KEY AUTOINCREMENT: one more than the largest id the
\* table ever held (sqlite_sequence) or holds now.
\* (The id of the last row handed out again: the + 1 left out.)
AutoIncrementStale(d) ==
    Max({d.seq} \cup {d.rows[i].id : i \in 1..Len(d.rows)} \cup {1})

AutoIncrement(d) ==
    Max({d.seq} \cup {d.rows[i].id : i \in 1..Len(d.rows)}) + 1

\* The INSERT statement of insert_books for one row. It raises (NOT NULL
\* constraint of rating, a NaN being bound as NULL) or adds the row.
InsertRaises(row) == row.rating_numeric = NaN

InsertRow(d, row) ==
    LET newid == AutoIncrement(d)
    IN  [d EXCEPT !.rows = Append(@, [id |-> newid,
                                      title |-> row.title,
                                      price |-> row.price_numeric,
                                      rating |-> row.rating_numeric,
                                      availability |-> row.availability,
                                      url |-> row.url]),
                  !.seq = newid]

\* SELECT title from books.
ExistingTitles(d) == {d.rows[i].title : i \in 1..Len(d.rows)}

\* The titles a call must not insert again: those the table already holds,
\* read once before the loop.
\* (No title looked up: every row of the batch is inserted.)
SkipNothing(d) == {}

SkipTitles(d) == ExistingTitles(d)

\* The loop of insert_books over books_df.iterrows(): the state after the
\* first k rows, as [d, count].
RECURSIVE InsertLoop(_, _, _, _)
InsertLoop(d, existing_titles, books_df, k) ==
    IF k = 0 THEN [d |-> d, count |-> 0]
    ELSE LET before == InsertLoop(d, existing_titles, books_df, k - 1)
             row == books_df[k]
         IN  IF row.title \notin existing_titles /\ ~InsertRaises(row)
             THEN [d |-> InsertRow(before.d, row), count |-> before.count + 1]
             ELSE before

InsertBooksResult(d, books_df) ==
    IF books_df = <<>> THEN [d |-> d, count |-> 0]
    ELSE InsertLoop(d, SkipTitles(d), books_df, Len(books_df))

\* os.remove(db_path) in __init__: the file is gone, or the call raised and
\* the file is as it was.
\* (The file never removed.)
KeepFile(f, remove_ok) == f

RemoveFile(f, remove_ok) == IF remove_ok THEN NoFile ELSE f

\* sqlite3.connect creates the file when it is missing; CREATE TABLE IF NOT
\* EXISTS leaves an existing books table alone.
CreateTables(f) == IF f.exists THEN f ELSE NewTable

\* BookDatabase.__init__
DatabaseInit(remove_ok) ==
    /\ conn = "none"
    /\ LET after == IF db_file.exists THEN RemoveFile(db_file, remove_ok)
                    ELSE db_file
       IN  /\ db_file' = CreateTables(after)
           /\ init_path' = IF ~db_file.exists THEN "created"
                           ELSE IF remove_ok THEN "removed" ELSE "kept"
    /\ prior_rows' = Len(db_file.rows)
    /\ conn' = "open"
    /\ last_call' = "init"
    /\ last_batch' = <<>>
    /\ insert_count' = 0
    /\ repeated' = FALSE
    /\ UNCHANGED <<crawlVars, analyzerVars>>

\* BookDatabase.insert_books
insert_books(books_df) ==
    /\ conn = "open"
    /\ LET r == InsertBooksResult(db_file, books_df)
       IN  /\ Len(r.d.rows) <= MaxRows
           /\ db_file' = r.d
           /\ insert_count' = r.count
    /\ repeated' = (last_call = "insert_books" /\ last_batch = books_df)
    /\ last_call' = "insert_books"
    /\ last_batch' = books_df
    /\ init_path' = "none"
    /\ prior_rows' = 0
    /\ UNCHANGED <<conn, crawlVars, analyzerVars>>

\* BookDatabase.close, at the end of main; the file stays on disk.
close ==
    /\ conn = "open"
    /\ conn' = "none"
    /\ last_call' = "close"
    /\ last_batch' = <<>>
    /\ insert_count' = 0
    /\ repeated' = FALSE
    /\ init_path' = "none"
    /\ prior_rows' = 0
    /\ UNCHANGED <<db_file, crawlVars, analyzerVars>>

StoreIdle ==
    /\ db_file = NoFile
    /\ conn = "none"
    /\ init_path = "none"
    /\ prior_rows = 0
    /\ last_call = "none"
    /\ last_batch = <<>>
    /\ insert_count = 0
    /\ repeated = FALSE

CrawlIdle ==
    /\ crawl_pc = "idle"
    /\ num_pages = 0
    /\ page = 0
    /\ books = <<>>
    /\ log = <<>>

AnalyzerIdle ==
    /\ books_data = <<>>
    /\ an_pc = "new"
    /\ df = <<>>
    /\ min_rating_arg = 0
    /\ n_arg = 0
    /\ result = <<>>

InitStore == StoreIdle /\ CrawlIdle /\ AnalyzerIdle

NextStore ==
    \/ \E remove_ok \in BOOLEAN : DatabaseInit(remove_ok)
    \/ \E books_df \in StoreFrames : insert_books(books_df)
    \/ close

SpecStore == InitStore /\ [][NextStore]_vars

\* ------------------------------------------------------------- BookScraper

base_url == "http://books.toscrape.com/"

\* Names for the pages of the site and for the places of a block on a page;
\* a block's title and href are made of the two, so that every listing of a
\* crawl differs from every other.
PageNames == <<"p1", "p2", "p3", "p4", "p5">>
ItemNames == <<"b1", "b2", "b3", "b4", "b5">>

\* The link of a block carries no title attribute.
NoTitle == <<>>

\* A text is a sequence of characters, each written as a string; "pound" is
\* the pound sign and "A-circumflex" the letter that precedes it in the
\* mis-encoded prefix.
\*
\* A listing block: the title attribute and the href of h3.a, and the texts
\* of p.price_color, p.availability and p.star-rating's second class. The
\* href holds the catalogue/ segment at the even places and lacks it at the
\* odd ones.
Block(p, i, titled) ==
    [title |-> IF titled THEN <<PageNames[p], ItemNames[i]>> ELSE NoTitle,
     price |-> <<"pound", "5", "1", ".", "7", "7">>,
     availability |-> "  In stock  ",
     rating |-> "Three",
     href |-> IF i % 2 = 0 THEN <<"catalogue/", PageNames[p], ItemNames[i]>>
                           ELSE <<PageNames[p], ItemNames[i]>>]

\* The value None, the empty text, and the markups of page p: any number of
\* listing blocks, each with or without its title attribute.
None == [none |-> TRUE, blank |-> TRUE, pods |-> <<>>]
Blank == [none |-> FALSE, blank |-> TRUE, pods |-> <<>>]
Markups(p) ==
    { [none |-> FALSE, blank |-> FALSE,
       pods |-> [i \in 1..Len(titled) |-> Block(p, i, titled[i])]] :
         titled \in SeqsUpTo(BOOLEAN, MaxBlocks) }

\* What requests.get may do for page p: raise, or answer with a status code
\* and a text.
Responses(p) ==
    {[outcome |-> "exception", status_code |-> 0, text |-> Blank]}
    \cup { [outcome |-> "response", status_code |-> c, text |-> t] :
             c \in {200, 404},
             t \in {Blank} \cup Markups(p) }

\* BookScraper.fetch_webpage
\* (The text of any response, the status code not looked at.)
fetch_webpage_any_status(resp) ==
    IF resp.outcome = "response" THEN resp.text ELSE None

fetch_webpage(resp) ==
    IF resp.outcome = "response" /\ resp.status_code = 200 THEN resp.text ELSE None

\* not html_content
NotContent(html_content) == html_content.none \/ html_content.blank

\* not book_containers
\* (A page without listing blocks not told from one with them.)
NoContainersUnchecked(book_containers) == FALSE

NoContainers(book_containers) == book_containers = <<>>

\* str.strip() of the availability text.
Strip(text) == IF text = "  In stock  " THEN "In stock" ELSE text

\* The body of the for loop of scrape_books_from_page for one block whose
\* link has a title attribute.
Extract(book) ==
    LET book_url == IF "catalogue/" \notin Range(book.href)
                    THEN <<"catalogue/">> \o book.href
                    ELSE book.href
    IN  [title |-> book.title,
         price |-> book.price,
         availability |-> Strip(book.availability),
         rating |-> book.rating,
         url |-> <<base_url>> \o book_url]

\* book.h3.a['title'] raises KeyError when the attribute is missing.
TitleRaises(book) == book.title = NoTitle

\* The for loop over book_containers: self.books and whether the loop raised,
\* after the first k blocks.
RECURSIVE ExtractLoop(_, _, _)
ExtractLoop(bks, book_containers, k) ==
    IF k = 0 THEN [books |-> bks, raised |-> FALSE]
    ELSE LET before == ExtractLoop(bks, book_containers, k - 1)
         IN  IF before.raised THEN before
             ELSE IF TitleRaises(book_containers[k])
                  THEN [books |-> before.books, raised |-> TRUE]
                  ELSE [books |-> Append(before.books, Extract(book_containers[k])),
                        raised |-> FALSE]

\* BookScraper.scrape_books_from_page: what it returns ("True", "False") or
\* "raise", and self.books after it.
scrape_books_from_page(bks, resp) ==
    LET html_content == fetch_webpage(resp)
        book_containers == html_content.pods
    IN  IF NotContent(html_content) THEN [ret |-> "False", books |-> bks]
        ELSE IF NoContainers(book_containers) THEN [ret |-> "False", books |-> bks]
        ELSE LET r == ExtractLoop(bks, book_containers, Len(book_containers))
             IN  [ret |-> IF r.raised THEN "raise" ELSE "True", books |-> r.books]

\* run_scraping's BookScraper() and the entry of scrape_multiple_pages(n).
StartCrawl(n) ==
    /\ crawl_pc = "idle"
    /\ num_pages' = n
    /\ page' = IF n >= 1 THEN 1 ELSE 0
    /\ books' = <<>>
    /\ log' = <<>>
    /\ crawl_pc' = IF n >= 1 THEN "loop" ELSE "done"
    /\ UNCHANGED <<storeVars, analyzerVars>>

\* One turn of the loop of scrape_multiple_pages, the site answering resp.
ScrapePage ==
    /\ crawl_pc = "loop"
    /\ \E resp \in Responses(page) :
         LET r == scrape_books_from_page(books, resp)
         IN  /\ books' = r.books
             /\ crawl_pc' = IF r.ret = "raise" THEN "raised"
                            ELSE IF r.ret = "False" \/ page = num_pages THEN "done"
                            ELSE "loop"
             /\ page' = IF r.ret = "True" /\ page < num_pages THEN page + 1 ELSE page
             /\ log' = Append(log, resp)
    /\ UNCHANGED <<num_pages, storeVars, analyzerVars>>

InitCrawl == StoreIdle /\ CrawlIdle /\ AnalyzerIdle

NextCrawl ==
    \/ \E n \in 0..MaxPages : StartCrawl(n)
    \/ ScrapePage

SpecCrawl == InitCrawl /\ [][NextCrawl]_vars

\* -------------------------------------------------------- BookDataAnalyzer

\* The price texts and rating tokens of the scraped listings: a price with
\* the pound sign, one with the mis-encoded prefix, one that is no number
\* once the prefixes are gone ("1,0"); the tokens of the site and one that
\* rating_map does not hold.
PriceTexts ==
    { <<"pound", "1", "0">>,
      <<"A-circumflex", "pound", "8">>,
      <<"pound", "5", ".", "5">>,
      <<"pound", "1", ",", "0">> }

RatingTokens == {"Three", "Four", "Five", "five"}

\* The scraped listing at place i of the list, as scrape_books_from_page
\* builds it; its title and url are those of block i of page 1.
Listing(i, price, rating) ==
    [title |-> <<PageNames[1], ItemNames[i]>>,
     price |-> price,
     availability |-> "In stock",
     rating |-> rating,
     url |-> <<base_url, "catalogue/", PageNames[1], ItemNames[i]>>]

\* A list of k scraped listings with the given price texts and rating tokens.
ListingList(k, prices, ratings) ==
    [i \in 1..k |-> Listing(i, prices[i], ratings[i])]

\* str.replace(sub, '', regex=False): every occurrence of sub, left to right.
RECURSIVE StrReplace(_, _)
StrReplace(s, sub) ==
    IF Len(s) < Len(sub) THEN s
    ELSE IF SubSeq(s, 1, Len(sub)) = sub
         THEN StrReplace(SubSeq(s, Len(sub) + 1, Len(s)), sub)
         ELSE <<s[1]>> \o StrReplace(Tail(s), sub)

Digits == <<"0", "1", "2", "3", "4", "5", "6", "7", "8", "9">>

IsDigit(c) == \E d \in 1..Len(Digits) : Digits[d] = c

DigitValue(c) == (CHOOSE d \in 1..Len(Digits) : Digits[d] = c) - 1

RECURSIVE DigitsValue(_)
DigitsValue(ds) ==
    IF ds = <<>> THEN 0
    ELSE DigitsValue(SubSeq(ds, 1, Len(ds) - 1)) * 10 + DigitValue(ds[Len(ds)])

\* float(s) for a text of digits with at most one point: whether it parses
\* (astype(float) raises ValueError otherwise) and its value, in hundredths.
Unsigned(s) == IF s # <<>> /\ s[1] \in {"-", "+"} THEN Tail(s) ELSE s

FloatParses(s) ==
    LET u == Unsigned(s)
        points == {i \in 1..Len(u) : u[i] = "."}
    IN  /\ Cardinality(points) <= 1
        /\ \A i \in (1..Len(u)) \ points : IsDigit(u[i])
        /\ Len(u) > Cardinality(points)

FloatValue(s) ==
    LET u == Unsigned(s)
        points == {i \in 1..Len(u) : u[i] = "."}
        dot == IF points = {} THEN Len(u) + 1 ELSE CHOOSE i \in points : TRUE
        whole == SubSeq(u, 1, dot - 1)
        frac == SubSeq(u, dot + 1, Len(u)) \o <<"0", "0">>
        magnitude == DigitsValue(whole) * 100 + DigitsValue(SubSeq(frac, 1, 2))
    IN  IF s # <<>> /\ s[1] = "-" THEN 0 - magnitude ELSE magnitude

\* The price column with both currency prefixes removed.
CleanPrice(price) ==
    StrReplace(StrReplace(price, <<"A-circumflex", "pound">>), <<"pound">>)

\* rating_map, and Series.map over it.
rating_map(token) ==
    CASE token = "One" -> 1
      [] token = "Two" -> 2
      [] token = "Three" -> 3
      [] token = "Four" -> 4
      [] token = "Five" -> 5
      [] OTHER -> NaN

\* BookDataAnalyzer._preprocess_data over the frame of the listings: it
\* raises when a price does not parse, and otherwise adds the two numeric
\* columns to every row. idx is the frame's index.
PreprocessRaises(listings) ==
    \E i \in 1..Len(listings) : ~FloatParses(CleanPrice(listings[i].price))

PreprocessData(listings) ==
    [i \in 1..Len(listings) |->
        [idx |-> i - 1,
         title |-> listings[i].title,
         price |-> listings[i].price,
         availability |-> listings[i].availability,
         rating |-> listings[i].rating,
         url |-> listings[i].url,
         price_numeric |-> FloatValue(CleanPrice(listings[i].price)),
         rating_numeric |-> rating_map(listings[i].rating)]]

\* BookDataAnalyzer.__init__(books_data=...)
AnalyzerInit ==
    /\ an_pc = "new"
    /\ IF books_data = <<>>
       THEN an_pc' = "ready" /\ df' = <<>>
       ELSE IF PreprocessRaises(books_data)
            THEN an_pc' = "raised" /\ df' = <<>>
            ELSE an_pc' = "ready" /\ df' = PreprocessData(books_data)
    /\ UNCHANGED <<books_data, min_rating_arg, n_arg, result, storeVars, crawlVars>>

\* The analyzer is constructed and main is at its menu, no method running.
Constructed == an_pc = "ready"

Min(S) == CHOOSE x \in S : \A y \in S : x <= y

\* BookDataAnalyzer.get_summary_stats. A mean is the pair of its sum and its
\* count; the mean of the ratings skips the NaN.
get_summary_stats ==
    /\ Constructed
    /\ an_pc' = "get_summary_stats"
    /\ result' =
         IF df = <<>> THEN [total_books |-> 0]
         ELSE LET prices == [i \in 1..Len(df) |-> df[i].price_numeric]
                  rated == SelectSeq(df, LAMBDA r : r.rating_numeric # NaN)
                  Sum[k \in 0..Len(df)] ==
                      IF k = 0 THEN 0 ELSE Sum[k - 1] + prices[k]
                  RSum[k \in 0..Len(rated)] ==
                      IF k = 0 THEN 0 ELSE RSum[k - 1] + rated[k].rating_numeric
              IN  [total_books |-> Len(df),
                   avg_price |-> <<Sum[Len(df)], Len(df)>>,
                   min_price |-> Min(Range(prices)),
                   max_price |-> Max(Range(prices)),
                   avg_rating |-> <<RSum[Len(rated)], Len(rated)>>]
    /\ min_rating_arg' = 0
    /\ n_arg' = 0
    /\ UNCHANGED <<books_data, df, storeVars, crawlVars>>

\* self.df[self.df['rating_numeric'] >= min_rating]: a NaN compares False.
ValueBooks(frame, min_rating) ==
    SelectSeq(frame, LAMBDA r : r.rating_numeric # NaN /\ r.rating_numeric >= min_rating)

\* sort_values('price_numeric') with the default kind, quicksort, which is
\* not stable: the rows in ascending price, rows of equal price in any order.
RECURSIVE SortOrders(_, _)
SortOrders(frame, left) ==
    IF left = {} THEN {<<>>}
    ELSE UNION { { <<frame[i]>> \o rest : rest \in SortOrders(frame, left \ {i}) } :
                 i \in { j \in left : \A k \in left :
                            frame[j].price_numeric <= frame[k].price_numeric } }

SortValues(frame) == SortOrders(frame, 1..Len(frame))

\* DataFrame.head(n)
DataFrameHead(frame, n) == SubSeq(frame, 1, IF n < Len(frame) THEN n ELSE Len(frame))

\* The default of n and the values of n tried; the minimum ratings tried,
\* among those main lets the user enter (1 to 5).
DefaultN == 5
NValues == {2, DefaultN}
MinRatings == {1, 4, 5}

\* BookDataAnalyzer.get_best_value_book
get_best_value_book ==
    /\ Constructed
    /\ \E min_rating \in MinRatings :
         \E sorted \in SortValues(ValueBooks(df, min_rating)) :
           \E n \in NValues :
             /\ min_rating_arg' = min_rating
             /\ n_arg' = n
             /\ result' = IF df = <<>> THEN <<>> ELSE DataFrameHead(sorted, n)
    /\ an_pc' = "get_best_value_book"
    /\ UNCHANGED <<books_data, df, storeVars, crawlVars>>

\* main has printed what the method returned and is back at its menu.
BackToMenu ==
    /\ an_pc \in {"get_summary_stats", "get_best_value_book"}
    /\ an_pc' = "ready"
    /\ min_rating_arg' = 0
    /\ n_arg' = 0
    /\ result' = <<>>
    /\ UNCHANGED <<books_data, df, storeVars, crawlVars>>

InitAnalyze ==
    /\ StoreIdle
    /\ CrawlIdle
    /\ \E k \in 0..MaxListings :
         \E prices \in [1..k -> PriceTexts], ratings \in [1..k -> RatingTokens] :
           books_data = ListingList(k, prices, ratings)
    /\ an_pc = "new"
    /\ df = <<>>
    /\ min_rating_arg = 0
    /\ n_arg = 0
    /\ result = <<>>

NextAnalyze ==
    \/ AnalyzerInit
    \/ get_summary_stats
    \/ get_best_value_book
    \/ BackToMenu

SpecAnalyze == InitAnalyze /\ [][NextAnalyze]_vars

\* --------------------------------------------------- claims on the analyzer

\* The listings of books_data with a rating token rating_map does not hold,
\* and those with a price that does not parse.
BadRating == {i \in 1..Len(books_data) : rating_map(books_data[i].rating) = NaN}
BadPrice ==
    {i \in 1..Len(books_data) : ~FloatParses(CleanPrice(books_data[i].price))}

\* The titles of the rows of a frame, in order.
TitlesOf(frame) == [i \in 1..Len(frame) |-> frame[i].title]

\* The listings of books_data outside the set bad, in order.
RECURSIVE Kept(_, _)
Kept(k, bad) ==
    IF k = 0 THEN <<>>
    ELSE IF k \in bad THEN Kept(k - 1, bad)
    ELSE Append(Kept(k - 1, bad), books_data[k])

\* C4: when exactly one of the N listings has a rating token outside One to
\* Five (and every price parses), normalisation does not raise and the frame
\* holds exactly the other N-1 listings, each with a rating of 1 to 5.
C4_RatingRejectionContained ==
    (an_pc # "new" /\ Cardinality(BadRating) = 1 /\ BadPrice = {})
    => /\ an_pc # "raised"
       /\ TitlesOf(df) = TitlesOf(Kept(Len(books_data), BadRating))
       /\ \A i \in 1..Len(df) : df[i].rating_numeric \in 1..5

\* C5: when exactly one of the listings has a price that does not parse (and
\* every rating token is known), normalisation does not raise and the frame
\* holds exactly the other listings.
C5_PriceRejectionContained ==
    (an_pc # "new" /\ Cardinality(BadPrice) = 1 /\ BadRating = {})
    => /\ an_pc # "raised"
       /\ TitlesOf(df) = TitlesOf(Kept(Len(books_data), BadPrice))

\* The rows of a frame in ascending price, rows of equal price in the order
\* of the frame: row k is put after the rows before it that cost no more.
RECURSIVE StableSort(_, _)
StableSort(frame, k) ==
    IF k = 0 THEN <<>>
    ELSE LET before == StableSort(frame, k - 1)
             cut == Cardinality({i \in 1..Len(before) :
                                   before[i].price_numeric <= frame[k].price_numeric})
         IN  SubSeq(before, 1, cut) \o <<frame[k]>> \o SubSeq(before, cut + 1, Len(before))

\* C8: get_best_value_book(min_rating, n) returns the rows with a rating of
\* at least min_rating, in ascending price with rows of equal price in the
\* order of the frame, cut to the first n.
C8_BestValueResult ==
    an_pc = "get_best_value_book"
    => LET value_books == ValueBooks(df, min_rating_arg)
       IN  result = DataFrameHead(StableSort(value_books, Len(value_books)), n_arg)

\* ------------------------------------------------------ claims on the crawl

\* The fetch of a page gave status 200.
FetchedOk(resp) == resp.outcome = "response" /\ resp.status_code = 200

\* The listings a page holds, in document order: one per block that has a
\* title attribute.
RECURSIVE ListingsOfPods(_, _)
ListingsOfPods(pods, k) ==
    IF k = 0 THEN <<>>
    ELSE IF pods[k].title = NoTitle THEN ListingsOfPods(pods, k - 1)
    ELSE Append(ListingsOfPods(pods, k - 1), Extract(pods[k]))

ListingsOf(resp) ==
    IF FetchedOk(resp) THEN ListingsOfPods(resp.text.pods, Len(resp.text.pods))
    ELSE <<>>

\* The listings of the first k pages fetched, in page order.
RECURSIVE ListingsOfPages(_)
ListingsOfPages(k) ==
    IF k = 0 THEN <<>> ELSE ListingsOfPages(k - 1) \o ListingsOf(log[k])

\* The page was fetched and holds no listing block.
EmptyPage(resp) == FetchedOk(resp) /\ resp.text.pods = <<>>

\* C6: when page k is the first page fetched that holds no listing block
\* (every page before it gave listings), the crawl has returned, page k is
\* the last page fetched, and self.books is the listings of pages 1..k-1 in
\* page order and document order.
C6_EmptyPageEndsCrawl ==
    \A k \in 1..Len(log) :
        ( /\ EmptyPage(log[k])
          /\ \A j \in 1..(k - 1) : ListingsOf(log[j]) # <<>> )
        => /\ crawl_pc = "done"
           /\ Len(log) = k
           /\ k <= num_pages
           /\ books = ListingsOfPages(k - 1)

\* Page 3 of a crawl with a larger or equal limit held no listing block and
\* the two pages before it gave listings.
C6_Witness ==
    /\ Len(log) = 3
    /\ EmptyPage(log[3])
    /\ \lnot log[3].text.blank
    /\ ListingsOf(log[1]) # <<>>
    /\ Len(ListingsOf(log[2])) >= 2
    /\ crawl_pc = "done"

\* The fetch of a page failed: requests.get raised or the status was not 200.
FetchFailed(resp) == \lnot FetchedOk(resp)

\* C7: when the fetch of page k fails, the crawl has returned without
\* raising, page k is the last page fetched, and self.books is what pages
\* 1..k-1 had put in it.
C7_FetchFailureKeepsPartial ==
    \A k \in 1..Len(log) :
        FetchFailed(log[k])
        => /\ crawl_pc = "done"
           /\ Len(log) = k
           /\ books = ListingsOfPages(k - 1)

\* The fetch of page 2 of a crawl of 3 pages answered with a status other
\* than 200 and a markup that holds listing blocks, after page 1 had given
\* listings.
C7_Witness ==
    /\ Len(log) = 2
    /\ num_pages = 3
    /\ log[2].outcome = "response"
    /\ log[2].status_code # 200
    /\ log[2].text.pods # <<>>
    /\ books # <<>>
    /\ crawl_pc = "done"

\* C9: a page with one block that lacks its title attribute does not make the
\* crawl raise, and once the page is extracted self.books holds the listing
\* of every other block of the page, in document order, after those of the
\* pages before it.
C9_BrokenBlockSkippedAlone ==
    \A k \in 1..Len(log) :
        ( /\ FetchedOk(log[k])
          /\ Cardinality({i \in 1..Len(log[k].text.pods) :
                            log[k].text.pods[i].title = NoTitle}) = 1 )
        => /\ crawl_pc # "raised"
           /\ Len(log) = k => books = ListingsOfPages(k)

\* ------------------------------------------------------ claims on the store

Rows == db_file.rows

\* C1: the books table never holds two rows with the same title, whatever
\* batches insert_books was handed.
C1_TitleUniqueness ==
    \A i, j \in 1..Len(Rows) : i # j => Rows[i].title # Rows[j].title

\* C2: an insert_books call that repeats the batch of the call right before
\* it inserts 0 rows and leaves the table (ids, titles, every field) as the
\* first call left it.
C2_SecondCallInsertsNothing ==
    [][(last_call' = "insert_books" /\ repeated')
         => (insert_count' = 0 /\ db_file' = db_file)]_vars

\* A second call has run with a batch of two rows, one of which the first
\* call had inserted.
C2_Witness ==
    /\ repeated
    /\ Len(last_batch) = 2
    /\ \E i \in 1..Len(last_batch) : last_batch[i].title \in ExistingTitles(db_file)

\* C3: while one store is open, a step keeps every stored row and its id
\* where they were, and gives each new row an id greater than the id of every
\* row before it.
C3_MonotonicIdentity ==
    [][(conn = "open" /\ conn' = "open")
         => /\ Len(db_file'.rows) >= Len(Rows)
            /\ \A i \in 1..Len(Rows) : db_file'.rows[i] = Rows[i]
            /\ \A i \in (Len(Rows) + 1)..Len(db_file'.rows) :
                  \A j \in 1..(i - 1) : db_file'.rows[j].id < db_file'.rows[i].id]_vars

\* An insert_books call has added rows to a table that already held some.
C3_Witness ==
    /\ last_call = "insert_books"
    /\ insert_count >= 1
    /\ Len(Rows) > insert_count

\* C10 as stated: right after __init__ the books table is empty, on every
\* path through the constructor.
C10_EmptyAfterInit ==
    last_call = "init" => Rows = <<>>

\* C10 as amended: __init__ leaves the books table empty on the paths where
\* no old file exists or the old file is removed; where os.remove fails the
\* file, and the rows in it, are what the earlier run left.
C10_EmptyUnlessRemoveFails ==
    [][(conn = "none" /\ conn' = "open")
         => IF init_path' = "kept" THEN db_file' = db_file
                                   ELSE db_file'.rows = <<>>]_vars

\* __init__ has removed a file in which an earlier run had left rows.
C10_Witness ==
    /\ last_call = "init"
    /\ init_path = "removed"
    /\ prior_rows > 0
    /\ Rows = <<>>

====
